---- MODULE Spec2Model ----
(***************************************************************************)
(* Data-access layer of dka-assistance: the Patient, Lab Result and        *)
(* Treatment accessors and the two dimension accessors over one SQLite     *)
(* store that initialize_database has set up.                              *)
(*                                                                         *)
(* Values.  Every column value is an integer; text columns (hn, name, sex, *)
(* medical_history) carry small integer codes.  NULL stands for Python's   *)
(* None and SQL NULL.  A payload (a Python dict) is a function from the    *)
(* set of its keys to values, the empty dict being the function with the   *)
(* empty domain.                                                           *)
(*                                                                         *)
(* Store.  db is the content of the database file: the set of tables that  *)
(* exist, the rows of each table and the sqlite_sequence counters of the   *)
(* AUTOINCREMENT keys.  db holds committed content: a handler's change     *)
(* enters it through commit.  The connections are opened by                *)
(* sqlite3.connect without PRAGMA foreign_keys, hence PragmaForeignKeys.   *)
(*                                                                         *)
(* Handlers.  Each accessor method is an operator from (db, arguments) to  *)
(* an outcome [kind, value, db, opened, pending, ended, wrote]: kind is    *)
(* "ok" or the name of the exception raised, value the returned value, db  *)
(* the store afterwards, opened tells whether the handler reached          *)
(* _get_connection, pending whether it left a transaction open on its      *)
(* connection, ended which of commit() and rollback() it called and wrote  *)
(* whether that commit() ended a write transaction.  The actions apply     *)
(* these operators and record the outcome in last.                         *)
(*                                                                         *)
(* Accessor objects.  conn tells for each object whether it holds a        *)
(* connection, opens how many it has opened so far, and txn whether its    *)
(* connection is outside a transaction ("none"), inside one that has read  *)
(* nothing yet ("open") or inside one that holds the SHARED lock of a read *)
(* ("reading").                                                            *)
(***************************************************************************)
EXTENDS Integers, FiniteSets, Sequences, TLC

VARIABLES db, conn, last, txn, opens

vars == <<db, conn, last, txn, opens>>

(***************************************************************************)
(* Bounds                                                                  *)
(***************************************************************************)
\* total number of rows the three accessors may insert in one behaviour
MaxInserts == 2

(***************************************************************************)
(* Values and schema                                                       *)
(***************************************************************************)
NULL == -999

\* a str that cannot be encoded as UTF-8 (a lone surrogate): binding it to a
\* statement parameter raises UnicodeEncodeError, a ValueError and no
\* sqlite3.Error
Unbindable == -998

Absent == [absent |-> TRUE]

EmptyPayload == [k \in {} |-> NULL]

Accessors == {"patient", "lab", "treatment"}

\* DimTreatmentDataAccess and DimAdministrationTypeDataAccess
DimAccessors == {"dim_treatment", "dim_administration_type"}

TableOf(a) ==
    CASE a = "patient" -> "patients"
      [] a = "lab" -> "lab_results"
      [] a = "treatment" -> "treatment"
      [] a = "dim_treatment" -> "dim_treatment"
      [] a = "dim_administration_type" -> "dim_administration_type"

AllTables == {"patients", "lab_results", "treatment"}

DimTables == {"dim_treatment", "dim_administration_type"}

Columns(t) ==
    CASE t = "patients" ->
           {"patient_id", "hn", "name", "age", "sex", "medical_history"}
      [] t = "lab_results" ->
           {"id", "patient_id", "logtime", "sampled_time", "result_time",
            "dtx", "ph", "k", "na", "ag", "ketone"}
      [] t = "treatment" ->
           {"id", "patient_id", "logtime", "administored_time", "end_time",
            "treatment_id", "application_method_id", "administration_rate"}

PrimaryKey(t) ==
    CASE t = "patients" -> "patient_id"
      [] t = "dim_treatment" -> "treatment_id"
      [] t = "dim_administration_type" -> "administration_type_id"
      [] OTHER -> "id"

\* the rows initialize_database seeds into dim_treatment
DimTreatmentSeed ==
    {[treatment_id |-> 1, treatment_name |-> "Insulin Therapy",
      treatment_description |->
          "Administering insulin to control blood sugar levels",
      rec_create_time |-> 0, rec_modified_time |-> 0],
     [treatment_id |-> 2, treatment_name |-> "Fluid Replacement",
      treatment_description |-> "Replenishing lost fluids",
      rec_create_time |-> 0, rec_modified_time |-> 0],
     [treatment_id |-> 3, treatment_name |-> "Electrolyte Replacement",
      treatment_description |-> "Restoring electrolyte balance",
      rec_create_time |-> 0, rec_modified_time |-> 0]}

\* the rows initialize_database seeds into dim_administration_type
DimAdministrationTypeSeed ==
    {[administration_type_id |-> i,
      administration_type_name |->
          <<"IV_1", "IV_2", "IV_3", "IV_4">>[i],
      administration_type_description |->
          <<"Intravenous method 1", "Intravenous method 2",
            "Intravenous method 3", "Intravenous method 4">>[i],
      rec_create_time |-> 0, rec_modified_time |-> 0] : i \in 1 .. 4}

NotNull(t) ==
    CASE t = "patients" -> {"hn", "name", "age", "sex"}
      [] t = "lab_results" -> {"logtime", "sampled_time", "result_time"}
      [] t = "treatment" ->
           {"logtime", "administored_time", "end_time", "treatment_id",
            "application_method_id"}

\* Variant: the patients DDL declares hn without UNIQUE.
Unique_keys_only(t) == IF t = "patients" THEN {"patient_id"} ELSE {"id"}

Unique(t) == IF t = "patients" THEN {"patient_id", "hn"} ELSE {"id"}

\* child tables whose DDL declares ON DELETE CASCADE towards parent t
CascadeChildren(t) ==
    IF t = "patients" THEN {[table |-> "lab_results", col |-> "patient_id"]}
    ELSE {}

PragmaForeignKeys == FALSE

(***************************************************************************)
(* The SQL statements the handlers issue                                   *)
(***************************************************************************)
SetMax(S) == CHOOSE x \in S : \A y \in S : y <= x

Restrict(f, K) == [k \in K |-> f[k]]

\* every INSERT, UPDATE or DELETE is preceded by the implicit BEGIN of
\* sqlite3 (dml); a CREATE TABLE is not
SqlError(d) ==
    [ok |-> FALSE, db |-> d, lastrowid |-> NULL, rowcount |-> 0, dml |-> TRUE]

\* WHERE col = v: NULL compares equal to nothing
Matching(d, t, col, v) ==
    {r \in d.rows[t] : r[col] # NULL /\ v # NULL /\ r[col] = v}

ConstraintsHold(t, rows) ==
    /\ \A r \in rows : \A c \in NotNull(t) \cup {PrimaryKey(t)} : r[c] # NULL
    /\ \A c \in Unique(t) : \A r1, r2 \in rows :
          (r1 # r2 /\ r1[c] # NULL) => r1[c] # r2[c]

\* Variant: INTEGER PRIMARY KEY without AUTOINCREMENT, one more than the
\* largest key now in the table.
NextRowId_max_rowid(d, t) ==
    SetMax({0} \cup {r[PrimaryKey(t)] : r \in d.rows[t]}) + 1

\* AUTOINCREMENT: one more than the largest key ever used in the table
NextRowId(d, t) ==
    SetMax({d.seq[t]} \cup {r[PrimaryKey(t)] : r \in d.rows[t]}) + 1

\* INSERT INTO t (DOMAIN params) VALUES (params)
SqlInsert(d, t, params) ==
    IF t \notin d.tables \/ ~(DOMAIN params \subseteq Columns(t))
    THEN SqlError(d)
    ELSE LET id == NextRowId(d, t)
             row == [c \in Columns(t) |->
                        IF c = PrimaryKey(t) THEN id
                        ELSE IF c \in DOMAIN params THEN params[c]
                        ELSE NULL]
             rows == d.rows[t] \cup {row}
         IN  IF ConstraintsHold(t, rows)
             THEN [ok |-> TRUE,
                   db |-> [d EXCEPT !.rows[t] = rows, !.seq[t] = id],
                   lastrowid |-> id, rowcount |-> 1, dml |-> TRUE]
             ELSE SqlError(d)

\* UPDATE t SET (set) WHERE col = v
SqlUpdate(d, t, set, col, v) ==
    IF t \notin d.tables \/ ~(DOMAIN set \subseteq Columns(t))
    THEN SqlError(d)
    ELSE LET matched == Matching(d, t, col, v)
             upd(r) == [c \in Columns(t) |->
                           IF c \in DOMAIN set THEN set[c] ELSE r[c]]
             rows == (d.rows[t] \ matched) \cup {upd(r) : r \in matched}
         IN  IF /\ ConstraintsHold(t, rows)
                /\ Cardinality(rows) = Cardinality(d.rows[t])
             THEN [ok |-> TRUE, db |-> [d EXCEPT !.rows[t] = rows],
                   lastrowid |-> NULL, rowcount |-> Cardinality(matched),
                   dml |-> TRUE]
             ELSE SqlError(d)

\* DELETE FROM t WHERE col = v
SqlDelete(d, t, col, v) ==
    IF t \notin d.tables
    THEN SqlError(d)
    ELSE LET matched == Matching(d, t, col, v)
             gone == {r[PrimaryKey(t)] : r \in matched}
             after(u) ==
                 IF u = t THEN d.rows[t] \ matched
                 ELSE IF /\ PragmaForeignKeys
                         /\ \E ch \in CascadeChildren(t) : ch.table = u
                      THEN {r \in d.rows[u] :
                              \A ch \in CascadeChildren(t) :
                                 ch.table = u => r[ch.col] \notin gone}
                      ELSE d.rows[u]
         IN  [ok |-> TRUE,
              db |-> [d EXCEPT !.rows = [u \in DOMAIN d.rows |-> after(u)]],
              lastrowid |-> NULL, rowcount |-> Cardinality(matched),
              dml |-> TRUE]

\* CREATE TABLE IF NOT EXISTS t
SqlCreateTable(d, t) ==
    [ok |-> TRUE, db |-> [d EXCEPT !.tables = d.tables \cup {t}],
     lastrowid |-> NULL, rowcount |-> -1, dml |-> FALSE]

\* cursor.fetchone() of SELECT ... WHERE col = v: the first row in key order
FetchOne(t, S) ==
    IF S = {} THEN Absent
    ELSE CHOOSE r \in S : \A q \in S : r[PrimaryKey(t)] <= q[PrimaryKey(t)]

\* cursor.fetchall() of SELECT ... ORDER BY col (key order when col is the key)
RECURSIVE FetchAll(_, _, _)
FetchAll(t, S, col) ==
    IF S = {} THEN <<>>
    ELSE LET first == CHOOSE r \in S : \A q \in S :
                         \/ r[col] < q[col]
                         \/ /\ r[col] = q[col]
                            /\ r[PrimaryKey(t)] <= q[PrimaryKey(t)]
         IN  <<first>> \o FetchAll(t, S \ {first}, col)

(***************************************************************************)
(* Outcomes                                                                *)
(***************************************************************************)
\* What a handler leaves behind on its connection: c.db is the committed
\* content of the store, c.in_transaction tells whether the implicit
\* transaction that sqlite3 begins before an INSERT, UPDATE or DELETE is
\* still open, c.ended which of commit() and rollback() the handler called
\* last, and c.wrote whether that commit() had a write transaction to end.
\* no INSERT, UPDATE or DELETE was executed: no transaction was begun
Idle(d) ==
    [db |-> d, in_transaction |-> FALSE, ended |-> "none", wrote |-> FALSE]

\* cursor.execute issued the implicit BEGIN and then failed to bind a
\* parameter: the statement never ran, and the handler called neither
\* commit() nor rollback()
Begun(d) ==
    [db |-> d, in_transaction |-> TRUE, ended |-> "none", wrote |-> FALSE]

\* the handler returns or raises with neither: the statement's change, if
\* any, stays in the open transaction and the store keeps its content
Uncommitted(d, r) ==
    [db |-> d, in_transaction |-> TRUE, ended |-> "none", wrote |-> FALSE]

\* self._connection.commit() after statement result r
commit(d, r) ==
    [db |-> r.db, in_transaction |-> FALSE, ended |-> "commit",
     wrote |-> r.dml]

\* self._connection.rollback() after statement result r
rollback(d, r) ==
    [db |-> d, in_transaction |-> FALSE, ended |-> "rollback",
     wrote |-> FALSE]

Returns(v, c) ==
    [kind |-> "ok", value |-> v, db |-> c.db, opened |-> TRUE,
     pending |-> c.in_transaction, ended |-> c.ended, wrote |-> c.wrote]

Raises(e, c, o) ==
    [kind |-> e, value |-> NULL, db |-> c.db, opened |-> o,
     pending |-> c.in_transaction, ended |-> c.ended, wrote |-> c.wrote]

(***************************************************************************)
(* DataAccess._execute_query with cursor.fetchone / cursor.fetchall        *)
(***************************************************************************)
\* SELECT ... FROM t WHERE col = v, then fetchone
SelectOne(d, t, col, v) ==
    IF t \notin d.tables THEN Raises("QueryError", Idle(d), TRUE)
    ELSE Returns(FetchOne(t, Matching(d, t, col, v)), Idle(d))

\* Variant: fetchmany(1) in place of fetchall.
SelectAll_first_only(d, t, col) ==
    IF t \notin d.tables THEN Raises("QueryError", Idle(d), TRUE)
    ELSE IF d.rows[t] = {} THEN Returns(<<>>, Idle(d))
    ELSE Returns(<<FetchAll(t, d.rows[t], col)[1]>>, Idle(d))

\* SELECT ... FROM t ORDER BY col, then fetchall
SelectAll(d, t, col) ==
    IF t \notin d.tables THEN Raises("QueryError", Idle(d), TRUE)
    ELSE Returns(FetchAll(t, d.rows[t], col), Idle(d))

\* CREATE TABLE IF NOT EXISTS t
CreateTableIfNotExists(d, t) ==
    Returns(NULL, Idle(SqlCreateTable(d, t).db))

(***************************************************************************)
(* PatientDataAccess                                                       *)
(***************************************************************************)
\* the DDL, then self._connection.commit()
PatientDataAccess_create_table(d) ==
    Returns(NULL, commit(d, SqlCreateTable(d, "patients")))

\* Variant: the INSERT names and binds only the four required columns.
PatientDataAccess_insert_no_history(d, data) ==
    LET required_keys == {"hn", "name", "age", "sex"}
    IN  IF ~(required_keys \subseteq DOMAIN data)
        THEN Raises("ValueError", Idle(d), FALSE)
        ELSE LET r == SqlInsert(d, "patients", Restrict(data, required_keys))
             IN  IF r.ok THEN Returns(r.lastrowid, commit(d, r))
                 ELSE Raises("QueryError", rollback(d, r), TRUE)

\* Variant: only hn is checked before the statement is issued.
PatientDataAccess_insert_hn_only(d, data) ==
    IF ~({"hn"} \subseteq DOMAIN data)
    THEN Raises("ValueError", Idle(d), FALSE)
    ELSE LET params ==
                 [c \in {"hn", "name", "age", "sex", "medical_history"} |->
                     IF c \in DOMAIN data THEN data[c] ELSE NULL]
             r == SqlInsert(d, "patients", params)
         IN  IF r.ok THEN Returns(r.lastrowid, commit(d, r))
             ELSE Raises("QueryError", rollback(d, r), TRUE)

PatientDataAccess_insert(d, data) ==
    LET required_keys == {"hn", "name", "age", "sex"}
    IN  IF ~(required_keys \subseteq DOMAIN data)
        THEN Raises("ValueError", Idle(d), FALSE)
        ELSE LET params ==
                     [c \in {"hn", "name", "age", "sex", "medical_history"} |->
                         IF c \in DOMAIN data THEN data[c] ELSE NULL]
                 r == SqlInsert(d, "patients", params)
             IN  IF r.ok THEN Returns(r.lastrowid, commit(d, r))
                 ELSE Raises("QueryError", rollback(d, r), TRUE)

\* Variant: the SELECT filters on hn instead of patient_id.
PatientDataAccess_get_by_id_by_hn(d, patient_id) ==
    SelectOne(d, "patients", "hn", patient_id)

PatientDataAccess_get_by_id(d, patient_id) ==
    SelectOne(d, "patients", "patient_id", patient_id)

\* Variant: the existence check comes before the empty-payload check.
PatientDataAccess_update_lookup_first(d, patient_id, data) ==
    LET found == PatientDataAccess_get_by_id(d, patient_id)
    IN  IF found.kind # "ok" THEN found
        ELSE IF found.value = Absent
        THEN Raises("RecordNotFoundError", Idle(d), TRUE)
        ELSE IF DOMAIN data = {}
        THEN Raises("ValueError", Idle(d), TRUE)
        ELSE LET r == SqlUpdate(d, "patients", data, "patient_id", patient_id)
             IN  IF r.ok THEN Returns(r.rowcount > 0, commit(d, r))
                 ELSE Raises("QueryError", rollback(d, r), TRUE)

PatientDataAccess_update(d, patient_id, data) ==
    IF DOMAIN data = {}
    THEN Raises("ValueError", Idle(d), FALSE)
    ELSE LET found == PatientDataAccess_get_by_id(d, patient_id)
         IN  IF found.kind # "ok" THEN found
             ELSE IF found.value = Absent
             THEN Raises("RecordNotFoundError", Idle(d), TRUE)
             ELSE LET update_params ==
                          [k \in DOMAIN data \cup {"patient_id"} |->
                              IF k = "patient_id" THEN patient_id ELSE data[k]]
                      r == SqlUpdate(d, "patients",
                                     Restrict(update_params, DOMAIN data),
                                     "patient_id", update_params["patient_id"])
                  IN  IF r.ok THEN Returns(r.rowcount > 0, commit(d, r))
                      ELSE Raises("QueryError", rollback(d, r), TRUE)

\* Variant: the commented-out existence check of delete is active.
PatientDataAccess_delete_checked(d, patient_id) ==
    LET found == PatientDataAccess_get_by_id(d, patient_id)
    IN  IF found.kind # "ok" THEN found
        ELSE IF found.value = Absent
        THEN Raises("RecordNotFoundError", Idle(d), TRUE)
        ELSE LET r == SqlDelete(d, "patients", "patient_id", patient_id)
             IN  IF r.ok THEN Returns(r.rowcount > 0, commit(d, r))
                 ELSE Raises("QueryError", rollback(d, r), TRUE)

PatientDataAccess_delete(d, patient_id) ==
    LET r == SqlDelete(d, "patients", "patient_id", patient_id)
    IN  IF r.ok THEN Returns(r.rowcount > 0, commit(d, r))
        ELSE Raises("QueryError", rollback(d, r), TRUE)

PatientDataAccess_get_all(d) == SelectAll(d, "patients", "name")

(***************************************************************************)
(* LabDataAccess                                                           *)
(***************************************************************************)
\* the DDL, then self._connection.commit().  The table this DDL makes has
\* no ag and no ketone column; LabDataAccess.insert binds neither.
LabDataAccess_create_table(d) ==
    Returns(NULL, commit(d, SqlCreateTable(d, "lab_results")))

LabDataAccess_insert(d, data) ==
    LET required_keys == {"logtime", "dtx", "ph", "k", "na"}
        bound == {"logtime", "sampled_time", "result_time",
                  "dtx", "ph", "k", "na"}
    IN  IF ~(required_keys \subseteq DOMAIN data)
        THEN Raises("ValueError", Idle(d), FALSE)
        ELSE IF ~(bound \subseteq DOMAIN data)
        THEN Raises("QueryError", rollback(d, SqlError(d)), TRUE)
        ELSE IF \E k \in bound : data[k] = Unbindable
        THEN Raises("ValueError", Begun(d), TRUE)
        ELSE LET r == SqlInsert(d, "lab_results", Restrict(data, bound))
             IN  IF r.ok THEN Returns(r.lastrowid, commit(d, r))
                 ELSE Raises("QueryError", rollback(d, r), TRUE)

LabDataAccess_get_by_id(d, record_id) ==
    SelectOne(d, "lab_results", "patient_id", record_id)

LabDataAccess_update(d, record_id, data) ==
    IF DOMAIN data = {}
    THEN Raises("ValueError", Idle(d), FALSE)
    ELSE LET found == LabDataAccess_get_by_id(d, record_id)
         IN  IF found.kind # "ok" THEN found
             ELSE IF found.value = Absent
             THEN Raises("RecordNotFoundError", Idle(d), TRUE)
             ELSE LET update_data ==
                          [k \in DOMAIN data \cup {"id"} |->
                              IF k = "id" THEN record_id ELSE data[k]]
                      r == SqlUpdate(d, "lab_results",
                                     Restrict(update_data, DOMAIN data),
                                     "id", update_data["id"])
                  IN  IF r.ok THEN Returns(r.rowcount > 0, commit(d, r))
                      ELSE Raises("QueryError", rollback(d, r), TRUE)

\* Variant: the DELETE filters on patient_id, as get_by_id does.
LabDataAccess_delete_by_patient_id(d, record_id) ==
    LET r == SqlDelete(d, "lab_results", "patient_id", record_id)
    IN  IF r.ok THEN Returns(r.rowcount > 0, commit(d, r))
        ELSE Raises("QueryError", rollback(d, r), TRUE)

LabDataAccess_delete(d, record_id) ==
    LET r == SqlDelete(d, "lab_results", "id", record_id)
    IN  IF r.ok THEN Returns(r.rowcount > 0, commit(d, r))
        ELSE Raises("QueryError", rollback(d, r), TRUE)

LabDataAccess_get_all(d) == SelectAll(d, "lab_results", "logtime")

(***************************************************************************)
(* TransactionalDataAccess, with table_name "treatment" and                *)
(* id_column_name "id" as TreatmentDataAccess.__init__ sets them           *)
(***************************************************************************)
TransactionalDataAccess_insert(d, data) ==
    LET r == IF DOMAIN data = {} THEN SqlError(d)
             ELSE SqlInsert(d, "treatment", data)
    IN  IF r.ok THEN Returns(r.lastrowid, commit(d, r))
        ELSE Raises("QueryError", rollback(d, r), TRUE)

TransactionalDataAccess_get_by_id(d, record_id) ==
    SelectOne(d, "treatment", "id", record_id)

TransactionalDataAccess_update(d, record_id, data) ==
    IF DOMAIN data = {}
    THEN Raises("ValueError", Idle(d), FALSE)
    ELSE LET update_data ==
                 [k \in DOMAIN data \cup {"id"} |->
                     IF k = "id" THEN record_id ELSE data[k]]
             r == SqlUpdate(d, "treatment",
                            Restrict(update_data, DOMAIN data),
                            "id", update_data["id"])
         IN  IF r.ok THEN Returns(r.rowcount > 0, commit(d, r))
             ELSE Raises("QueryError", rollback(d, r), TRUE)

TransactionalDataAccess_delete(d, record_id) ==
    LET r == SqlDelete(d, "treatment", "id", record_id)
    IN  IF r.ok THEN Returns(r.rowcount > 0, commit(d, r))
        ELSE Raises("QueryError", rollback(d, r), TRUE)

TransactionalDataAccess_get_all(d) == SelectAll(d, "treatment", "id")

(***************************************************************************)
(* TreatmentDataAccess                                                     *)
(***************************************************************************)
TreatmentKeys ==
    {"patient_id", "logtime", "administored_time", "end_time",
     "treatment_id", "application_method_id", "administration_rate"}

\* the body is "pass": no statement is issued
TreatmentDataAccess_create_table(d) ==
    [kind |-> "ok", value |-> NULL, db |-> d, opened |-> FALSE,
     pending |-> FALSE, ended |-> "none", wrote |-> FALSE]

\* Variant: the sign of administration_rate is not checked.
TreatmentDataAccess_insert_unchecked(d, data) ==
    IF ~(TreatmentKeys \subseteq DOMAIN data)
    THEN Raises("ValueError", Idle(d), FALSE)
    ELSE TransactionalDataAccess_insert(d, Restrict(data, TreatmentKeys))

TreatmentDataAccess_insert(d, data) ==
    IF ~(TreatmentKeys \subseteq DOMAIN data)
    THEN Raises("ValueError", Idle(d), FALSE)
    ELSE IF /\ data["administration_rate"] # NULL
            /\ data["administration_rate"] < 0
    THEN Raises("ValueError", Idle(d), FALSE)
    ELSE TransactionalDataAccess_insert(d, Restrict(data, TreatmentKeys))

TreatmentDataAccess_get_by_id(d, record_id) ==
    TransactionalDataAccess_get_by_id(d, record_id)

TreatmentDataAccess_update(d, record_id, data) ==
    IF DOMAIN data = {}
    THEN Raises("ValueError", Idle(d), FALSE)
    ELSE LET kept == {k \in TreatmentKeys \cap DOMAIN data : data[k] # NULL}
         IN  TransactionalDataAccess_update(d, record_id, Restrict(data, kept))

TreatmentDataAccess_delete(d, record_id) ==
    TransactionalDataAccess_delete(d, record_id)

TreatmentDataAccess_get_all(d) == TransactionalDataAccess_get_all(d)

(***************************************************************************)
(* DimensionalDataAccess, with the table_name and id_column_name that      *)
(* DimTreatmentDataAccess and DimAdministrationTypeDataAccess set; the two *)
(* subclasses override get_by_id and get_all only to call the base class   *)
(***************************************************************************)
DimensionalDataAccess_create_table(t, d) == CreateTableIfNotExists(d, t)

DimensionalDataAccess_insert(t, d, data) ==
    Raises("NotImplementedError", Idle(d), FALSE)

DimensionalDataAccess_get_by_id(t, d, record_id) ==
    SelectOne(d, t, PrimaryKey(t), record_id)

DimensionalDataAccess_update(t, d, record_id, data) ==
    Raises("NotImplementedError", Idle(d), FALSE)

\* Variant: delete is not overridden and issues its DELETE statement.
DimensionalDataAccess_delete_issued(t, d, record_id) ==
    LET r == SqlDelete(d, t, PrimaryKey(t), record_id)
    IN  IF r.ok THEN Returns(r.rowcount > 0, commit(d, r))
        ELSE Raises("QueryError", rollback(d, r), TRUE)

DimensionalDataAccess_delete(t, d, record_id) ==
    Raises("NotImplementedError", Idle(d), FALSE)

\* SELECT * without ORDER BY walks the table in key order
DimensionalDataAccess_get_all(t, d) == SelectAll(d, t, PrimaryKey(t))

(***************************************************************************)
(* initialize_database                                                     *)
(***************************************************************************)
\* the database file before it is first opened
EmptyStore ==
    [tables |-> {},
     rows |-> [t \in AllTables \cup DimTables |-> {}],
     seq |-> [t \in AllTables |-> 0]]

\* Variant: plain INSERT without the key column, every row gets a new key.
InsertOrIgnore_new_key(d, t, seed) ==
    LET base == SetMax({0} \cup {r[PrimaryKey(t)] : r \in d.rows[t]})
    IN  [d EXCEPT !.rows[t] =
            d.rows[t] \cup
            {[s EXCEPT ![PrimaryKey(t)] = base + s[PrimaryKey(t)]] :
                s \in seed}]

\* executemany of INSERT OR IGNORE INTO t ...: a seed row whose key is
\* already stored is skipped
InsertOrIgnore(d, t, seed) ==
    [d EXCEPT !.rows[t] =
        d.rows[t] \cup
        {s \in seed :
            \A r \in d.rows[t] : r[PrimaryKey(t)] # s[PrimaryKey(t)]}]

\* five CREATE TABLE IF NOT EXISTS, the two seedings, commit
initialize_database(d) ==
    LET created == [d EXCEPT !.tables = d.tables \cup AllTables \cup DimTables]
        seeded == InsertOrIgnore(created, "dim_treatment", DimTreatmentSeed)
    IN  InsertOrIgnore(seeded, "dim_administration_type",
                       DimAdministrationTypeSeed)

(***************************************************************************)
(* Dispatch on the accessor object                                         *)
(***************************************************************************)
create_table(a, d) ==
    CASE a = "patient" -> PatientDataAccess_create_table(d)
      [] a = "lab" -> LabDataAccess_create_table(d)
      [] a = "treatment" -> TreatmentDataAccess_create_table(d)
      [] a \in DimAccessors ->
           DimensionalDataAccess_create_table(TableOf(a), d)

insert(a, d, data) ==
    CASE a = "patient" -> PatientDataAccess_insert(d, data)
      [] a = "lab" -> LabDataAccess_insert(d, data)
      [] a = "treatment" -> TreatmentDataAccess_insert(d, data)
      [] a \in DimAccessors ->
           DimensionalDataAccess_insert(TableOf(a), d, data)

get_by_id(a, d, id) ==
    CASE a = "patient" -> PatientDataAccess_get_by_id(d, id)
      [] a = "lab" -> LabDataAccess_get_by_id(d, id)
      [] a = "treatment" -> TreatmentDataAccess_get_by_id(d, id)
      [] a \in DimAccessors ->
           DimensionalDataAccess_get_by_id(TableOf(a), d, id)

update(a, d, id, data) ==
    CASE a = "patient" -> PatientDataAccess_update(d, id, data)
      [] a = "lab" -> LabDataAccess_update(d, id, data)
      [] a = "treatment" -> TreatmentDataAccess_update(d, id, data)
      [] a \in DimAccessors ->
           DimensionalDataAccess_update(TableOf(a), d, id, data)

delete(a, d, id) ==
    CASE a = "patient" -> PatientDataAccess_delete(d, id)
      [] a = "lab" -> LabDataAccess_delete(d, id)
      [] a = "treatment" -> TreatmentDataAccess_delete(d, id)
      [] a \in DimAccessors ->
           DimensionalDataAccess_delete(TableOf(a), d, id)

get_all(a, d) ==
    CASE a = "patient" -> PatientDataAccess_get_all(d)
      [] a = "lab" -> LabDataAccess_get_all(d)
      [] a = "treatment" -> TreatmentDataAccess_get_all(d)
      [] a \in DimAccessors ->
           DimensionalDataAccess_get_all(TableOf(a), d)

(***************************************************************************)
(* Inputs of the callers                                                   *)
(***************************************************************************)
\* the values a caller may give each key of a payload
KeyValues(a) ==
    CASE a = "patient" ->
           [hn |-> {1, 2}, name |-> {1, NULL}, age |-> {30}, sex |-> {1},
            medical_history |-> {1, NULL}]
      [] a = "lab" ->
           [patient_id |-> {1}, logtime |-> {1000}, sampled_time |-> {900},
            result_time |-> {1100, NULL}, dtx |-> {120, -10}, ph |-> {7},
            k |-> {4}, na |-> {140}, ag |-> {12}, ketone |-> {1}]
      [] a = "treatment" ->
           [patient_id |-> {1}, logtime |-> {1000, NULL},
            administored_time |-> {900}, end_time |-> {1100},
            treatment_id |-> {1}, application_method_id |-> {1},
            administration_rate |-> {2, -4}]
      [] a = "dim_treatment" ->
           [treatment_id |-> {1, 4}, treatment_name |-> {"Insulin Therapy"}]
      [] a = "dim_administration_type" ->
           [administration_type_id |-> {1, 5},
            administration_type_name |-> {"IV_1"}]

PayloadKeys(a) == DOMAIN KeyValues(a)

\* every payload over exactly the keys K
RECURSIVE PayloadsOver(_, _)
PayloadsOver(a, K) ==
    IF K = {} THEN {EmptyPayload}
    ELSE LET k == CHOOSE x \in K : TRUE
         IN  {[x \in K |-> IF x = k THEN v ELSE f[x]] :
                 f \in PayloadsOver(a, K \ {k}), v \in KeyValues(a)[k]}

\* the payloads of each accessor, enumerated once
InsertPayloadsOf ==
    [a \in Accessors \cup DimAccessors |->
        UNION {PayloadsOver(a, K) :
                  K \in {PayloadKeys(a)}
                           \cup {PayloadKeys(a) \ {k} : k \in PayloadKeys(a)}}]

UpdatePayloadsOf ==
    [a \in Accessors \cup DimAccessors |->
        UNION {PayloadsOver(a, K) :
                  K \in {{}, PayloadKeys(a)}
                           \cup {{k} : k \in PayloadKeys(a)}}]

\* insert is tried with every key and with every key but one
InsertPayloads(a) == InsertPayloadsOf[a]

\* update is tried with no key, with one key and with every key
UpdatePayloads(a) == UpdatePayloadsOf[a]

\* the ids a caller may pass: those of stored records, of deleted ones and
\* of records not yet inserted
IdArgs == 1 .. MaxInserts

(***************************************************************************)
(* The system: one accessor object per class over one bootstrapped store   *)
(***************************************************************************)
InsertedRows(d) ==
    d.seq["patients"] + d.seq["lab_results"] + d.seq["treatment"]

Record(a, op, out) ==
    [acc |-> a, op |-> op, kind |-> out.kind, value |-> out.value]

\* the accessor objects: one per class as in the test fixture, and a second
\* PatientDataAccess made by another part of the application
Instances == Accessors \cup DimAccessors \cup {"patient_b"}

ClassOf(i) == IF i = "patient_b" THEN "patient" ELSE i

\* Variant: sqlite3.connect is called whether or not a connection is held.
DataAccess_get_connection_always_new(held, n, reachable) ==
    IF reachable THEN [ok |-> TRUE, held |-> TRUE, opens |-> n + 1]
    ELSE [ok |-> FALSE, held |-> FALSE, opens |-> n]

\* DataAccess._get_connection: held tells whether self._connection is set,
\* n counts the connections this object has opened, reachable whether
\* sqlite3.connect succeeds
DataAccess_get_connection(held, n, reachable) ==
    IF held THEN [ok |-> TRUE, held |-> TRUE, opens |-> n]
    ELSE IF reachable THEN [ok |-> TRUE, held |-> TRUE, opens |-> n + 1]
    ELSE [ok |-> FALSE, held |-> FALSE, opens |-> n]

\* DataAccess.check_connection
DataAccess_check_connection(held) == held

\* Variant: the reference is cleared after close() and not in a finally
\* clause.
DataAccess_close_connection_no_finally(held, close_error) ==
    [kind |-> "ok", held |-> held /\ close_error,
     warned |-> held /\ close_error]

\* DataAccess._close_connection: close_error tells whether
\* self._connection.close() raises sqlite3.Error, which is caught and
\* printed as a warning; the reference is cleared in the finally clause
DataAccess_close_connection(held, close_error) ==
    [kind |-> "ok", held |-> FALSE, warned |-> held /\ close_error]

\* another connection holds the SHARED lock of a read it made inside a
\* transaction that is still open: the engine refuses every write lock
Locked(i) == \E j \in Instances \ {i} : txn[j] = "reading"

\* what each class does with the sqlite3.OperationalError that commit()
\* raises: PatientDataAccess and LabDataAccess wrap it (except Exception),
\* TransactionalDataAccess raises it again as it is
OnCommitError(a) ==
    IF a \in {"patient", "lab"} THEN "DatabaseError"
    ELSE "sqlite3.OperationalError"

\* the outcome of a call on instance i whose handler, run on an idle engine,
\* gives out: the connection is opened first if the handler needs it, a
\* CREATE TABLE that has a table to make and a commit() that ends a write
\* transaction need the lock
Settle(i, out, reachable) ==
    IF out.opened
          /\ ~DataAccess_get_connection(conn[i], opens[i], reachable).ok
    THEN Raises("DatabaseError", Idle(db), TRUE)
    ELSE IF out.db.tables # db.tables /\ Locked(i)
    THEN Raises("QueryError", Idle(db), TRUE)
    ELSE IF out.ended = "commit" /\ out.wrote /\ Locked(i)
    THEN Raises(OnCommitError(ClassOf(i)), rollback(db, out), TRUE)
    ELSE out

\* the transaction state of a connection after a call with outcome res:
\* commit() and rollback() end the transaction, a failed binding leaves the
\* one just begun, a statement run inside an open transaction keeps its
\* SHARED lock
AfterCall(t, res) ==
    IF res.ended # "none" THEN "none"
    ELSE IF res.pending THEN (IF t = "none" THEN "open" ELSE t)
    ELSE IF res.opened /\ t # "none" THEN "reading"
    ELSE t

\* the effect of a call on the store and on the instance, last left aside
Effect(i, out, res, reachable) ==
    /\ db' = res.db
    /\ IF out.opened
       THEN \E c \in {DataAccess_get_connection(conn[i], opens[i],
                                                 reachable)} :
               /\ conn' = [conn EXCEPT ![i] = c.held]
               /\ opens' = [opens EXCEPT ![i] = c.opens]
       ELSE UNCHANGED <<conn, opens>>
    /\ txn' = [txn EXCEPT ![i] = AfterCall(txn[i], res)]

Perform(i, op, out, reachable) ==
    \E res \in {Settle(i, out, reachable)} :
        /\ Effect(i, out, res, reachable)
        /\ last' = Record(i, op, res)

\* a call on the accessor a of the fixture, the store file being reachable
Apply(a, op, out) == \E o \in {out} : Perform(a, op, o, TRUE)

\* initialize_database has run once on a new database file: the tables
\* exist, the transactional ones empty, the dimension ones seeded
Init ==
    /\ db = initialize_database(EmptyStore)
    /\ conn = [i \in Instances |-> FALSE]
    /\ txn = [i \in Instances |-> "none"]
    /\ opens = [i \in Instances |-> 0]
    /\ last = [acc |-> "none", op |-> "init", kind |-> "ok", value |-> NULL]

CreateTable(a) == Apply(a, "create_table", create_table(a, db))

Insert(a) ==
    /\ InsertedRows(db) < MaxInserts
    /\ \E data \in InsertPayloads(a) : Apply(a, "insert", insert(a, db, data))

GetById(a) ==
    \E id \in IdArgs : Apply(a, "get_by_id", get_by_id(a, db, id))

Update(a) ==
    \E id \in IdArgs, data \in UpdatePayloads(a) :
        Apply(a, "update", update(a, db, id, data))

Delete(a) ==
    \E id \in IdArgs : Apply(a, "delete", delete(a, db, id))

GetAll(a) == Apply(a, "get_all", get_all(a, db))

Next ==
    \E a \in Accessors :
        \/ CreateTable(a)
        \/ Insert(a)
        \/ GetById(a)
        \/ Update(a)
        \/ Delete(a)
        \/ GetAll(a)

Spec == Init /\ [][Next]_vars

(***************************************************************************)
(* The five accessors of the test fixture together with further runs of    *)
(* initialize_database                                                     *)
(***************************************************************************)
\* number of rows the transactional accessors may insert beside the
\* dimension accessors
MaxDimInserts == 1

\* python ./src/initialize_database.py, on a connection of its own
Bootstrap ==
    /\ db' = initialize_database(db)
    /\ last' = [acc |-> "none", op |-> "initialize_database",
                kind |-> "ok", value |-> NULL]
    /\ UNCHANGED <<conn, txn, opens>>

DimNext ==
    \/ Bootstrap
    \/ \E a \in DimAccessors :
          \/ CreateTable(a)
          \/ Insert(a)
          \/ GetById(a)
          \/ Update(a)
          \/ Delete(a)
          \/ GetAll(a)
    \/ /\ InsertedRows(db) < MaxDimInserts
       /\ \E a \in Accessors : Insert(a)
    \/ \E a \in Accessors : Update(a) \/ Delete(a)

SpecDim == Init /\ [][DimNext]_vars

(***************************************************************************)
(* A new database file: no table exists until an accessor creates it       *)
(***************************************************************************)
\* number of rows the accessors may insert into the new store
MaxFreshInserts == 1

InitFresh ==
    /\ db = EmptyStore
    /\ conn = [i \in Instances |-> FALSE]
    /\ txn = [i \in Instances |-> "none"]
    /\ opens = [i \in Instances |-> 0]
    /\ last = [acc |-> "none", op |-> "init", kind |-> "ok", value |-> NULL]

\* DataAccessTester.setup_database and the calls that follow it
FreshNext ==
    \E a \in Accessors \cup DimAccessors :
        \/ CreateTable(a)
        \/ /\ InsertedRows(db) < MaxFreshInserts
           /\ Insert(a)
        \/ GetAll(a)

SpecFresh == InitFresh /\ [][FreshNext]_vars

(***************************************************************************)
(* Several accessor objects on one store, called one at a time             *)
(***************************************************************************)
\* number of rows the instances may insert together
MaxSharedInserts == 1

SharedInstances == {"patient", "patient_b", "lab", "treatment"}

\* the Lab Result payloads that name every key and give dtx a str the
\* engine cannot bind
UnbindablePayloads ==
    {[data EXCEPT !["dtx"] = Unbindable] :
        data \in {f \in InsertPayloads("lab") :
                     DOMAIN f = PayloadKeys("lab")}}

SharedInsert(i) ==
    \/ /\ InsertedRows(db) < MaxSharedInserts
       /\ \E data \in InsertPayloads(ClassOf(i)) :
             Apply(i, "insert", insert(ClassOf(i), db, data))
    \/ /\ ClassOf(i) = "lab"
       /\ \E data \in UnbindablePayloads :
             Apply(i, "insert", insert(ClassOf(i), db, data))

SharedNext ==
    \E i \in SharedInstances :
        \/ Apply(i, "create_table", create_table(ClassOf(i), db))
        \/ SharedInsert(i)
        \/ \E id \in IdArgs :
              Apply(i, "get_by_id", get_by_id(ClassOf(i), db, id))
        \/ \E id \in IdArgs, data \in UpdatePayloads(ClassOf(i)) :
              Apply(i, "update", update(ClassOf(i), db, id, data))
        \/ \E id \in IdArgs :
              Apply(i, "delete", delete(ClassOf(i), db, id))
        \/ Apply(i, "get_all", get_all(ClassOf(i), db))

SpecShared == Init /\ [][SharedNext]_vars

(***************************************************************************)
(* Connections: the store file may be unreachable when an accessor object  *)
(* connects, and the objects are closed and used again                     *)
(***************************************************************************)
\* number of connections each accessor object may open
MaxOpens == 2

\* number of rows the accessors may insert while connections come and go
MaxConnInserts == 1

ConnCall(i, op, out) ==
    \E o \in {out}, reachable \in BOOLEAN :
        /\ (o.opened /\ ~conn[i]) => opens[i] < MaxOpens
        /\ Perform(i, op, o, reachable)

\* the cleanup of the daos fixture, and _close_connection called directly
Close(i) ==
    \E close_error \in BOOLEAN :
        \E r \in {DataAccess_close_connection(conn[i], close_error)} :
            /\ conn' = [conn EXCEPT ![i] = r.held]
            /\ txn' = [txn EXCEPT ![i] = IF r.held THEN txn[i] ELSE "none"]
            /\ last' = [acc |-> i, op |-> "_close_connection",
                        kind |-> r.kind,
                        value |-> IF r.warned THEN 1 ELSE 0]
            /\ UNCHANGED <<db, opens>>

\* one accessor object of each base class
ConnInstances == {"patient", "dim_treatment"}

ConnNext ==
    \E a \in ConnInstances :
        \/ Close(a)
        \/ ConnCall(a, "create_table", create_table(a, db))
        \/ /\ InsertedRows(db) < MaxConnInserts
           /\ \E data \in InsertPayloads(a) :
                 ConnCall(a, "insert", insert(a, db, data))
        \/ \E id \in IdArgs :
              ConnCall(a, "get_by_id", get_by_id(a, db, id))
        \/ \E id \in IdArgs : ConnCall(a, "delete", delete(a, db, id))
        \/ ConnCall(a, "get_all", get_all(a, db))

SpecConn == Init /\ [][ConnNext]_vars

(***************************************************************************)
(* Result and handle_database_operation.  An object is named by its class: *)
(* the exception classes the accessors raise, and str, int and NoneType    *)
(* for objects that are no exceptions.                                     *)
(***************************************************************************)
\* the failure kinds of the accessor contract: Connection (DatabaseError),
\* Query, Validation (ValueError), Not-Permitted (NotImplementedError) and
\* Record-Not-Found
FailureKinds ==
    {"DatabaseError", "QueryError", "ValueError", "NotImplementedError",
     "RecordNotFoundError"}

\* the classes of an object of class c (type(c).__mro__)
Mro(c) ==
    CASE c = "DatabaseError" -> {"DatabaseError", "Exception"}
      [] c = "QueryError" -> {"QueryError", "DatabaseError", "Exception"}
      [] c = "RecordNotFoundError" ->
           {"RecordNotFoundError", "DatabaseError", "Exception"}
      [] c = "ValueError" -> {"ValueError", "Exception"}
      [] c = "TypeError" -> {"TypeError", "Exception"}
      [] c = "NotImplementedError" ->
           {"NotImplementedError", "RuntimeError", "Exception"}
      [] c = "sqlite3.OperationalError" ->
           {"sqlite3.OperationalError", "sqlite3.DatabaseError",
            "sqlite3.Error", "Exception"}
      [] OTHER -> {c, "object"}

isinstance(c, classes) == Mro(c) \cap classes # {}

Result(is_ok, value, error) ==
    [is_ok |-> is_ok, value |-> value, error |-> error]

Result_Ok(value) == Result(TRUE, value, "None")

\* Variant: the cause is stored without the isinstance check.
Result_Err_unchecked(error) == Result(FALSE, NULL, error)

Result_Err(error) ==
    IF ~isinstance(error, {"Exception"})
    THEN Result(FALSE, NULL, "TypeError")
    ELSE Result(FALSE, NULL, error)

Result_is_ok(r) == r.is_ok

Result_is_err(r) == ~r.is_ok

\* an exception object is true; None, the error of Result.Ok, is not
Result_unwrap(r) ==
    IF Result_is_ok(r) THEN [kind |-> "ok", value |-> r.value]
    ELSE IF r.error # "None" THEN [kind |-> r.error, value |-> NULL]
    ELSE [kind |-> "ValueError", value |-> NULL]

\* Variant: without the closing except Exception clause.
handle_database_operation_expected_only(out) ==
    IF out.kind = "ok"
    THEN [kind |-> "ok", value |-> Result_Ok(out.value)]
    ELSE IF isinstance(out.kind, {"DatabaseError", "ValueError", "TypeError"})
    THEN [kind |-> "ok", value |-> Result_Err(out.kind)]
    ELSE [kind |-> out.kind, value |-> NULL]

\* out is what operation() does: it returns out.value or raises out.kind
handle_database_operation(out) ==
    IF out.kind = "ok"
    THEN [kind |-> "ok", value |-> Result_Ok(out.value)]
    ELSE IF isinstance(out.kind, {"DatabaseError", "ValueError", "TypeError"})
    THEN [kind |-> "ok", value |-> Result_Err(out.kind)]
    ELSE IF isinstance(out.kind, {"Exception"})
    THEN [kind |-> "ok", value |-> Result_Err(out.kind)]
    ELSE [kind |-> out.kind, value |-> NULL]

\* number of rows inserted through handle_database_operation
MaxResultInserts == 1

ResultInstances == {"lab", "treatment", "dim_treatment"}

\* the objects a caller may pass to Result.Err
Causes ==
    FailureKinds \cup {"TypeError", "sqlite3.OperationalError", "str", "int",
                       "NoneType"}

\* DataAccessTester._execute_and_report: the call is made inside
\* handle_database_operation; last keeps what the call did in last.of
Handled(i, op, out) ==
    \E o \in {out} :
        \E res \in {Settle(i, o, TRUE)} :
            \E h \in {handle_database_operation(res)} :
                /\ Effect(i, o, res, TRUE)
                /\ last' = [acc |-> i, op |-> op, kind |-> h.kind,
                            value |-> h.value,
                            of |-> [kind |-> res.kind, value |-> res.value]]

\* Result.Err(c) for an object c of the caller
MakeErr ==
    /\ \E c \in Causes :
          last' = [acc |-> "caller", op |-> "Result.Err", kind |-> "ok",
                   value |-> Result_Err(c),
                   of |-> [kind |-> c, value |-> NULL]]
    /\ UNCHANGED <<db, conn, txn, opens>>

\* result.unwrap() on the Result in hand
Unwrap ==
    /\ last.op \notin {"init", "unwrap"}
    /\ last.kind = "ok"
    /\ \E u \in {Result_unwrap(last.value)} :
          last' = [acc |-> last.acc, op |-> "unwrap", kind |-> u.kind,
                   value |-> u.value, of |-> last.value,
                   cause |-> last.of.kind]
    /\ UNCHANGED <<db, conn, txn, opens>>

ResultNext ==
    \/ MakeErr
    \/ Unwrap
    \/ \E i \in ResultInstances :
          \/ /\ InsertedRows(db) < MaxResultInserts
             /\ \E data \in InsertPayloads(ClassOf(i)) :
                   Handled(i, "insert", insert(ClassOf(i), db, data))
          \/ /\ ClassOf(i) = "lab"
             /\ \E data \in UnbindablePayloads :
                   Handled(i, "insert", insert(ClassOf(i), db, data))
          \/ \E id \in IdArgs :
                Handled(i, "get_by_id", get_by_id(ClassOf(i), db, id))
          \/ \E id \in IdArgs, data \in UpdatePayloads(ClassOf(i)) :
                Handled(i, "update", update(ClassOf(i), db, id, data))
          \/ \E id \in IdArgs :
                Handled(i, "delete", delete(ClassOf(i), db, id))
          \/ Handled(i, "get_all", get_all(ClassOf(i), db))

SpecResult == Init /\ [][ResultNext]_vars

(***************************************************************************)
(* Vocabulary of the properties                                            *)
(***************************************************************************)
IdsOf(a, d) == {r[PrimaryKey(TableOf(a))] : r \in d.rows[TableOf(a)]}

RowOf(a, d, id) ==
    CHOOSE r \in d.rows[TableOf(a)] : r[PrimaryKey(TableOf(a))] = id

SeqToSet(s) == {s[i] : i \in 1 .. Len(s)}

\* a payload whose keys are columns and which gives every NOT NULL column
\* it names a value
WellFormed(a, data) ==
    /\ DOMAIN data \subseteq Columns(TableOf(a)) \ {PrimaryKey(TableOf(a))}
    /\ \A k \in DOMAIN data \cap NotNull(TableOf(a)) : data[k] # NULL

\* no stored record other than id carries the payload's hn
HnFree(d, data, id) ==
    "hn" \in DOMAIN data =>
        \A r \in d.rows["patients"] :
            r["patient_id"] # id => r["hn"] # data["hn"]

ValidUpdate(a, d, id, data) ==
    /\ DOMAIN data # {}
    /\ WellFormed(a, data)
    /\ a = "patient" => HnFree(d, data, id)

Called(a, op) == last.acc = a /\ last.op = op

(***************************************************************************)
(* C1: for every valid Patient payload whose hn is not stored, insert      *)
(* returns an identity and get_by_id with that identity, called next,      *)
(* returns a present record whose hn, name, age, sex and medical_history   *)
(* are the payload's (None when medical_history is not given) and whose    *)
(* patient_id is the identity.                                             *)
(***************************************************************************)
C1_InsertThenGetPatient ==
    \A data \in InsertPayloads("patient") :
        (/\ {"hn", "name", "age", "sex"} \subseteq DOMAIN data
         /\ WellFormed("patient", data)
         /\ HnFree(db, data, NULL))
        => LET out == insert("patient", db, data)
               got == get_by_id("patient", out.db, out.value)
           IN  /\ out.kind = "ok"
               /\ out.value \notin IdsOf("patient", db)
               /\ got.kind = "ok"
               /\ got.value # Absent
               /\ got.value["patient_id"] = out.value
               /\ \A k \in {"hn", "name", "age", "sex", "medical_history"} :
                     got.value[k] = IF k \in DOMAIN data THEN data[k] ELSE NULL

C1_Witness ==
    /\ Called("patient", "insert")
    /\ last.kind = "ok"
    /\ PatientDataAccess_get_by_id(db, last.value).value # Absent
    /\ PatientDataAccess_get_by_id(db, last.value).value["medical_history"] # NULL

(***************************************************************************)
(* C2: for every Lab Result payload that insert accepts, get_by_id with    *)
(* the returned identity returns a present record whose id is that         *)
(* identity and whose patient_id, dtx, ph, k, na, ag and ketone are the    *)
(* payload's.                                                              *)
(***************************************************************************)
C2_InsertThenGetLab ==
    \A data \in InsertPayloads("lab") :
        LET out == insert("lab", db, data)
            got == get_by_id("lab", out.db, out.value)
        IN  out.kind = "ok"
            => /\ got.kind = "ok"
               /\ got.value # Absent
               /\ got.value["id"] = out.value
               /\ \A k \in {"patient_id", "dtx", "ph", "k", "na", "ag",
                            "ketone"} \cap DOMAIN data :
                     got.value[k] = data[k]

(***************************************************************************)
(* C3: on each accessor, update(id, payload) with a non-empty valid        *)
(* payload on the id of a stored record returns true; afterwards           *)
(* get_by_id(id) returns a record that has the payload's value in every    *)
(* field the payload names and the old value in every other field, and     *)
(* every other record of the table is as before.                           *)
(***************************************************************************)
C3_UpdateExisting ==
    \A a \in Accessors : \A id \in IdsOf(a, db) :
        \A data \in UpdatePayloads(a) :
            ValidUpdate(a, db, id, data)
            => LET out == update(a, db, id, data)
                   got == get_by_id(a, out.db, id)
                   old == RowOf(a, db, id)
               IN  /\ out.kind = "ok"
                   /\ out.value = TRUE
                   /\ got.kind = "ok"
                   /\ got.value # Absent
                   /\ \A c \in Columns(TableOf(a)) :
                         got.value[c] =
                            IF c \in DOMAIN data THEN data[c] ELSE old[c]
                   /\ out.db.rows[TableOf(a)] \ {got.value}
                         = db.rows[TableOf(a)] \ {old}

(***************************************************************************)
(* C4: on each accessor, update(id, payload) with a non-empty valid        *)
(* payload and an id that matches no stored record returns false, raises   *)
(* nothing and leaves the table unchanged.                                 *)
(***************************************************************************)
C4_UpdateMissing ==
    \A a \in Accessors : \A id \in IdArgs \ IdsOf(a, db) :
        \A data \in UpdatePayloads(a) :
            ValidUpdate(a, db, id, data)
            => LET out == update(a, db, id, data)
               IN  /\ out.kind = "ok"
                   /\ out.value = FALSE
                   /\ out.db.rows[TableOf(a)] = db.rows[TableOf(a)]

(***************************************************************************)
(* C5: on each accessor, delete(id) on the id of a stored record returns   *)
(* true; get_by_id(id) called afterwards returns the absence marker and    *)
(* get_all holds no record with that id.                                   *)
(***************************************************************************)
C5_DeleteExisting ==
    \A a \in Accessors : \A id \in IdsOf(a, db) :
        LET out == delete(a, db, id)
            got == get_by_id(a, out.db, id)
            all == get_all(a, out.db)
        IN  /\ out.kind = "ok"
            /\ out.value = TRUE
            /\ got.kind = "ok"
            /\ got.value = Absent
            /\ all.kind = "ok"
            /\ \A r \in SeqToSet(all.value) : r[PrimaryKey(TableOf(a))] # id

C5_Witness ==
    /\ last.op = "delete"
    /\ last.kind = "ok"
    /\ last.value = TRUE
    /\ db.rows[TableOf(last.acc)] # {}

(***************************************************************************)
(* C6: on each accessor, delete(id) with an id that matches no stored      *)
(* record returns false, raises nothing and leaves every stored record     *)
(* unchanged.                                                              *)
(***************************************************************************)
C6_DeleteMissing ==
    \A a \in Accessors : \A id \in IdArgs \ IdsOf(a, db) :
        LET out == delete(a, db, id)
        IN  /\ out.kind = "ok"
            /\ out.value = FALSE
            /\ out.db = db

C6_Witness ==
    /\ last.op = "delete"
    /\ last.kind = "ok"
    /\ last.value = FALSE
    /\ db.rows[TableOf(last.acc)] # {}

(***************************************************************************)
(* C7: in every reachable state and on each accessor, get_by_id(x) returns *)
(* the absence marker and raises nothing when no record of the table has   *)
(* identity x, and a record it returns has identity x.                     *)
(***************************************************************************)
C7_GetById ==
    \A a \in Accessors : \A x \in IdArgs :
        LET got == get_by_id(a, db, x)
        IN  /\ x \notin IdsOf(a, db)
               => (got.kind = "ok" /\ got.value = Absent)
            /\ (got.kind = "ok" /\ got.value # Absent)
               => got.value[PrimaryKey(TableOf(a))] = x

C7_Witness ==
    /\ last.op = "get_by_id"
    /\ last.kind = "ok"
    /\ last.value = Absent
    /\ db.rows[TableOf(last.acc)] # {}
    /\ \E x \in IdArgs \ IdsOf(last.acc, db) :
          get_by_id(last.acc, db, x).value = Absent
    /\ \E x \in IdsOf("patient", db) :
          get_by_id("patient", db, x).value # Absent

(***************************************************************************)
(* C8: on each accessor, update(id, {}) fails with a Validation failure    *)
(* (ValueError), whether or not id matches a stored record, and leaves the *)
(* store unchanged.                                                        *)
(***************************************************************************)
C8_UpdateEmptyPayload ==
    \A a \in Accessors : \A id \in IdArgs :
        LET out == update(a, db, id, EmptyPayload)
        IN  /\ out.kind = "ValueError"
            /\ out.db = db

C8_Witness ==
    /\ Called("patient", "update")
    /\ last.kind = "ValueError"
    /\ IdsOf("patient", db) # {}
    /\ IdArgs \ IdsOf("patient", db) # {}

(***************************************************************************)
(* C9: for every Patient payload that lacks one of the keys hn, name, age, *)
(* sex, insert fails with a Validation failure (ValueError) and get_all    *)
(* returns the same records before and after the call.                     *)
(***************************************************************************)
C9_InsertMissingKey ==
    \A data \in InsertPayloads("patient") :
        ~({"hn", "name", "age", "sex"} \subseteq DOMAIN data)
        => LET out == insert("patient", db, data)
           IN  /\ out.kind = "ValueError"
               /\ get_all("patient", out.db) = get_all("patient", db)

C9_Witness ==
    /\ Called("patient", "insert")
    /\ last.kind = "ValueError"
    /\ db.rows["patients"] # {}

(***************************************************************************)
(* C10: once PatientDataAccess.delete(p) has returned true, get_by_id on   *)
(* the Lab Result accessor with the own id of a Lab Result that referenced *)
(* p, and get_by_id on the Treatment accessor with the own id of a         *)
(* Treatment that referenced p, return the absence marker.                 *)
(***************************************************************************)
C10_DeleteCascades ==
    \A p \in IdsOf("patient", db) :
        LET out == delete("patient", db, p)
        IN  (out.kind = "ok" /\ out.value = TRUE)
            => \A a \in {"lab", "treatment"} :
                  \A r \in db.rows[TableOf(a)] :
                     r["patient_id"] = p
                     => LET got == get_by_id(a, out.db, r["id"])
                        IN  got.kind = "ok" /\ got.value = Absent

(***************************************************************************)
(* C11: in every reachable state the patient_id of every stored Lab Result *)
(* and of every stored Treatment is the patient_id of a stored Patient;    *)
(* an insert or update through the Lab Result or Treatment accessor whose  *)
(* payload names a patient_id that no stored Patient has fails and leaves  *)
(* the store unchanged.                                                    *)
(***************************************************************************)
C11_PatientReferenceResolves ==
    /\ \A a \in {"lab", "treatment"} : \A r \in db.rows[TableOf(a)] :
          r["patient_id"] \in IdsOf("patient", db)
    /\ \A a \in {"lab", "treatment"} :
          /\ \A data \in InsertPayloads(a) :
                ("patient_id" \in DOMAIN data
                 /\ data["patient_id"] \notin IdsOf("patient", db))
                => LET out == insert(a, db, data)
                   IN  out.kind # "ok" /\ out.db = db
          /\ \A id \in IdArgs : \A data \in UpdatePayloads(a) :
                ("patient_id" \in DOMAIN data
                 /\ data["patient_id"] \notin IdsOf("patient", db))
                => LET out == update(a, db, id, data)
                   IN  out.kind # "ok" /\ out.db = db

(***************************************************************************)
(* C12: on both dimension accessors, insert with any payload and update    *)
(* and delete with any id and payload fail with NotImplementedError, a     *)
(* kind that is neither the Validation kind (ValueError) nor the Query     *)
(* kind (QueryError); the call leaves the store unchanged, opens no        *)
(* connection and leaves no transaction open.                              *)
(***************************************************************************)
C12_DimensionWritesNotPermitted ==
    \A a \in DimAccessors :
        LET NotPermitted(out) ==
                /\ out.kind = "NotImplementedError"
                /\ out.kind \notin {"ok", "ValueError", "QueryError"}
                /\ out.db = db
                /\ ~out.opened
                /\ ~out.pending
        IN  /\ \A data \in InsertPayloads(a) \cup UpdatePayloads(a) :
                  NotPermitted(insert(a, db, data))
            /\ \A id \in IdArgs : \A data \in UpdatePayloads(a) :
                  NotPermitted(update(a, db, id, data))
            /\ \A id \in IdArgs : NotPermitted(delete(a, db, id))

C12_Witness ==
    /\ last.acc \in DimAccessors
    /\ last.op = "delete"
    /\ last.kind = "NotImplementedError"
    /\ ~conn[last.acc]
    /\ db.rows[TableOf(last.acc)] # {}

(***************************************************************************)
(* C13: once initialize_database has run, however often it runs again and  *)
(* whatever the accessors are called with, get_all on the treatment-type   *)
(* dimension accessor returns exactly the three records named Insulin      *)
(* Therapy, Fluid Replacement, Electrolyte Replacement in this order, and  *)
(* get_all on the application-method dimension accessor exactly the four   *)
(* records named IV_1, IV_2, IV_3, IV_4 in this order.                     *)
(***************************************************************************)
C13_DimensionSeeds ==
    LET treatments == get_all("dim_treatment", db)
        admin_types == get_all("dim_administration_type", db)
    IN  /\ treatments.kind = "ok"
        /\ [i \in 1 .. Len(treatments.value) |->
               treatments.value[i]["treatment_name"]]
             = <<"Insulin Therapy", "Fluid Replacement",
                 "Electrolyte Replacement">>
        /\ admin_types.kind = "ok"
        /\ [i \in 1 .. Len(admin_types.value) |->
               admin_types.value[i]["administration_type_name"]]
             = <<"IV_1", "IV_2", "IV_3", "IV_4">>

C13_Witness ==
    /\ last.op = "initialize_database"
    /\ \E t \in AllTables : db.rows[t] # {}
    /\ \E a \in DimAccessors : conn[a]

C15_MissingRequiredField ==
    \A a \in Accessors :
        LET required ==
                CASE a = "patient" -> {"hn", "name", "age", "sex"}
                  [] a = "lab" ->
                       {"patient_id", "logtime", "sampled_time",
                        "result_time"}
                  [] a = "treatment" ->
                       {"patient_id", "logtime", "administored_time",
                        "end_time", "treatment_id", "application_method_id"}
        IN  \A data \in InsertPayloads(a) :
                ~(required \subseteq DOMAIN data)
                => LET out == insert(a, db, data)
                   IN  /\ out.kind = "ValueError"
                       /\ ~out.opened
                       /\ out.db = db

(***************************************************************************)
(* C16: LabDataAccess.insert fails with a Validation failure (ValueError)  *)
(* and stores no Lab Result for every payload whose dtx is negative and    *)
(* for every payload whose ph is below 0 or above 14.                      *)
(***************************************************************************)
C16_LabValueValidation ==
    LET Rejected(data) ==
            LET out == insert("lab", db, data)
            IN  /\ out.kind = "ValueError"
                /\ out.db.rows["lab_results"] = db.rows["lab_results"]
    IN  \A data \in InsertPayloads("lab") :
            /\ ("dtx" \in DOMAIN data /\ data["dtx"] # NULL
                   /\ data["dtx"] < 0)
               => Rejected(data)
            /\ "ph" \in DOMAIN data
               => \A ph \in {-1, 15} : Rejected([data EXCEPT !["ph"] = ph])

(***************************************************************************)
(* C17: an insert that gives every required field and no optional one      *)
(* returns a new identity: a Lab Result payload with only patient_id,      *)
(* logtime, sampled_time and result_time, and a Treatment payload without  *)
(* administration_rate.                                                    *)
(***************************************************************************)
C17_OptionalFieldsAbsent ==
    \A a \in {"lab", "treatment"} :
        LET keys == IF a = "lab"
                    THEN {"patient_id", "logtime", "sampled_time",
                          "result_time"}
                    ELSE TreatmentKeys \ {"administration_rate"}
        IN  \A data \in PayloadsOver(a, keys) :
                (\A k \in keys : data[k] # NULL)
                => LET out == insert(a, db, data)
                   IN  /\ out.kind = "ok"
                       /\ out.value \in IdsOf(a, out.db) \ IdsOf(a, db)

(***************************************************************************)
(* C18: TreatmentDataAccess.insert with a payload that has every required  *)
(* key and a negative administration_rate raises, issues no statement (it  *)
(* opens no connection) and creates no Treatment.                          *)
(***************************************************************************)
C18_NegativeRateRejected ==
    \A data \in InsertPayloads("treatment") :
        (/\ TreatmentKeys \subseteq DOMAIN data
         /\ data["administration_rate"] # NULL
         /\ data["administration_rate"] < 0)
        => LET out == insert("treatment", db, data)
           IN  /\ out.kind # "ok"
               /\ ~out.opened
               /\ ~out.pending
               /\ out.db = db

C18_Witness ==
    /\ Called("treatment", "insert")
    /\ last.kind = "ValueError"
    /\ ~conn["treatment"]
    /\ \E data \in InsertPayloads("treatment") :
          /\ TreatmentKeys \subseteq DOMAIN data
          /\ data["administration_rate"] < 0
          /\ data["logtime"] # NULL
          /\ insert("treatment", db, data).kind = "ValueError"

(***************************************************************************)
(* C19: in every state reachable by insert and update calls on the Lab     *)
(* Result and Treatment accessors, no stored Lab Result has a negative     *)
(* dtx, ph, k, na, ag or ketone and no stored Treatment has a negative     *)
(* administration_rate.                                                    *)
(***************************************************************************)
C19_NoNegativeStored ==
    /\ \A r \in db.rows["lab_results"] :
          \A c \in {"dtx", "ph", "k", "na", "ag", "ketone"} :
             r[c] # NULL => r[c] >= 0
    /\ \A r \in db.rows["treatment"] :
          r["administration_rate"] # NULL => r["administration_rate"] >= 0

(***************************************************************************)
(* C20: on each accessor, a key of the update payload whose value is null  *)
(* is not applied: after update(id, payload) on a stored record, the       *)
(* stored value of that field is the value it had before the call.         *)
(***************************************************************************)
C20_NullNotApplied ==
    \A a \in Accessors : \A id \in IdsOf(a, db) :
        \A data \in UpdatePayloads(a) :
            LET out == update(a, db, id, data)
            IN  \A k \in DOMAIN data :
                   data[k] = NULL
                   => /\ id \in IdsOf(a, out.db)
                      /\ RowOf(a, out.db, id)[k] = RowOf(a, db, id)[k]

\* a payload that names every key, gives each a value that is present and
\* not negative, and whose hn no stored Patient carries
ValidInsert(a, d, data) ==
    /\ DOMAIN data = PayloadKeys(a)
    /\ \A k \in DOMAIN data : data[k] # NULL /\ data[k] >= 0
    /\ a = "patient" => HnFree(d, data, NULL)

(***************************************************************************)
(* C21: on every store, new ones included, create_table of each of the     *)
(* five accessors returns without failure and leaves every stored record   *)
(* as it was; after it the accessor's table exists, get_all returns, and   *)
(* insert of a valid payload on a transactional accessor returns an        *)
(* identity.                                                               *)
(***************************************************************************)
C21_CreateTable ==
    \A a \in Accessors \cup DimAccessors :
        LET out == create_table(a, db)
        IN  /\ out.kind = "ok"
            /\ out.db.rows = db.rows
            /\ TableOf(a) \in out.db.tables
            /\ get_all(a, out.db).kind = "ok"
            /\ a \in Accessors
               => \A data \in InsertPayloads(a) :
                     ValidInsert(a, out.db, data)
                     => insert(a, out.db, data).kind = "ok"

\* TreatmentDataAccess.create_table has returned on a store without the
\* treatment table
C21_Witness ==
    /\ Called("treatment", "create_table")
    /\ last.kind = "ok"
    /\ "treatment" \notin db.tables

(***************************************************************************)
(* C23: whatever an accessor call signals to its caller is a return or a   *)
(* failure of the Connection, Query, Validation, Not-Permitted or          *)
(* Record-Not-Found kind; a failure of the engine while committing is      *)
(* signalled, and never as the engine's own sqlite3 error.                 *)
(***************************************************************************)
C23_FailuresTranslated ==
    /\ last.kind \in {"ok"} \cup FailureKinds
    /\ \A i \in SharedInstances :
          \A id \in IdArgs :
             LET out == delete(ClassOf(i), db, id)
                 res == Settle(i, out, TRUE)
             IN  /\ res.kind \in {"ok"} \cup FailureKinds
                 /\ (Locked(i) /\ out.ended = "commit" /\ out.wrote)
                    => res.kind # "ok" /\ res.db = db

\* TreatmentDataAccess.insert has raised the engine's error of its commit
C23_Witness ==
    /\ Called("treatment", "insert")
    /\ last.kind = "sqlite3.OperationalError"

(***************************************************************************)
(* C29: between the calls made one at a time on several accessor objects   *)
(* of one store, no object holds an open transaction, and every call on    *)
(* an object has the outcome its handler gives on the committed store,     *)
(* whatever calls the other objects completed before: a get_all returns    *)
(* the committed records, and an insert, update or delete does not fail    *)
(* because of another object.                                              *)
(***************************************************************************)
C29_InstancesIndependent ==
    \A i \in SharedInstances :
        LET a == ClassOf(i)
        IN  /\ txn[i] = "none"
            /\ Settle(i, get_all(a, db), TRUE) = get_all(a, db)
            /\ get_all(a, db).kind = "ok"
            /\ SeqToSet(get_all(a, db).value) = db.rows[TableOf(a)]
            /\ \A data \in InsertPayloads(a) :
                  Settle(i, insert(a, db, data), TRUE) = insert(a, db, data)
            /\ \A id \in IdArgs :
                  /\ Settle(i, delete(a, db, id), TRUE) = delete(a, db, id)
                  /\ \A data \in UpdatePayloads(a) :
                        Settle(i, update(a, db, id, data), TRUE)
                           = update(a, db, id, data)

\* a valid Patient insert has failed while the LabDataAccess object holds
\* the read lock of the transaction its failed insert left open
C29_Witness ==
    /\ Called("patient", "insert")
    /\ last.kind = "DatabaseError"
    /\ txn["lab"] = "reading"

(***************************************************************************)
(* C22: in every state reached by insert, update and delete calls, get_all *)
(* of the Patient, Lab Result and Treatment accessor returns a sequence    *)
(* with exactly one mapping for each record stored in its table, each with *)
(* the record's current values; when the table holds no record it is the   *)
(* empty sequence, whose domain is that of a sequence and not that of the  *)
(* absence marker.                                                         *)
(***************************************************************************)
C22_GetAll ==
    \A a \in Accessors :
        LET out == get_all(a, db)
            rows == db.rows[TableOf(a)]
        IN  /\ out.kind = "ok"
            /\ out.db = db
            /\ DOMAIN out.value = 1 .. Cardinality(rows)
            /\ SeqToSet(out.value) = rows
            /\ rows = {} => out.value = <<>>

\* get_all has returned two Patients, one with and one without a
\* medical_history
C22_Witness ==
    /\ Called("patient", "get_all")
    /\ last.kind = "ok"
    /\ Len(last.value) = 2
    /\ \E i \in 1 .. 2 : last.value[i]["medical_history"] = NULL
    /\ \E i \in 1 .. 2 : last.value[i]["medical_history"] # NULL

(***************************************************************************)
(* C28: no two stored Patients carry the same hn; PatientDataAccess.insert *)
(* of a payload with every required key whose hn a stored Patient carries, *)
(* and PatientDataAccess.update of a stored Patient with a payload whose   *)
(* hn another stored Patient carries, fail with a Query failure and leave  *)
(* the store as it was.                                                    *)
(***************************************************************************)
C28_UniqueHn ==
    LET patients == db.rows["patients"]
    IN  /\ \A r1, r2 \in patients : r1 # r2 => r1["hn"] # r2["hn"]
        /\ \A data \in InsertPayloads("patient") :
              ({"hn", "name", "age", "sex"} \subseteq DOMAIN data
                  /\ ~HnFree(db, data, NULL))
              => /\ insert("patient", db, data).kind = "QueryError"
                 /\ insert("patient", db, data).db = db
        /\ \A id \in IdsOf("patient", db) :
              \A data \in UpdatePayloads("patient") :
                 ("hn" \in DOMAIN data /\ ~HnFree(db, data, id))
                 => /\ update("patient", db, id, data).kind = "QueryError"
                    /\ update("patient", db, id, data).db = db

\* an update of one of two stored Patients has failed with a Query failure
\* and both keep their own hn
C28_Witness ==
    /\ Called("patient", "update")
    /\ last.kind = "QueryError"
    /\ {r["hn"] : r \in db.rows["patients"]} = {1, 2}

(***************************************************************************)
(* C30: in every step, a successful insert returns an identity larger      *)
(* than every identity its table has given out before, deleted records'    *)
(* included, and records that identity as given out; no step lowers that   *)
(* record; and an identity given out whose record is no longer stored      *)
(* stays without a record: get_by_id with it returns the absence marker    *)
(* after the step as before.                                               *)
(***************************************************************************)
C30_IdentityNeverReused ==
    [][/\ \A t \in AllTables : db'.seq[t] >= db.seq[t]
       /\ (last'.op = "insert" /\ last'.kind = "ok")
          => LET T == TableOf(last'.acc)
             IN  /\ last'.value > db.seq[T]
                 /\ last'.value = db'.seq[T]
                 /\ last'.value \notin IdsOf(last'.acc, db)
                 /\ last'.value \in IdsOf(last'.acc, db')
       /\ \A a \in Accessors :
             /\ IdsOf(a, db) \subseteq 1 .. db.seq[TableOf(a)]
             /\ \A id \in (1 .. db.seq[TableOf(a)]) \ IdsOf(a, db) :
                   /\ id \notin IdsOf(a, db')
                   /\ get_by_id(a, db', id).value = Absent]_vars

\* insert has returned 2 for the Patient table whose record 1 was deleted
C30_Witness ==
    /\ Called("patient", "insert")
    /\ last.kind = "ok"
    /\ last.value = 2
    /\ IdsOf("patient", db) = {2}

(***************************************************************************)
(* C26: in every step and for every accessor object, a call on an object   *)
(* that holds a connection keeps that connection and opens no other; an    *)
(* object that holds none gets one only by a call of its own, which opens  *)
(* exactly one, after a close as before the first call; only close         *)
(* releases it.  When sqlite3.connect fails, the call fails with           *)
(* DatabaseError, check_connection stays false, nothing is counted as      *)
(* opened and the store is unchanged, and the next call connects again.    *)
(***************************************************************************)
C26_OneConnection ==
    [][\A i \in ConnInstances :
          /\ (conn[i] /\ conn'[i]) => opens'[i] = opens[i]
          /\ (conn[i] /\ ~conn'[i])
             => /\ last'.acc = i /\ last'.op = "_close_connection"
                /\ opens'[i] = opens[i]
          /\ (conn[i] /\ last'.op # "_close_connection") => conn'[i]
          /\ (~conn[i] /\ conn'[i])
             => /\ last'.acc = i /\ last'.op # "_close_connection"
                /\ opens'[i] = opens[i] + 1
          /\ (~conn[i] /\ ~conn'[i]) => opens'[i] = opens[i]
          /\ ~conn[i]
             => LET out == get_all(ClassOf(i), db)
                    failed == Settle(i, out, FALSE)
                    c == DataAccess_get_connection(conn[i], opens[i], FALSE)
                    again == DataAccess_get_connection(c.held, c.opens, TRUE)
                IN  /\ failed.kind = "DatabaseError"
                    /\ failed.db = db
                    /\ ~DataAccess_check_connection(c.held)
                    /\ c.opens = opens[i]
                    /\ again.ok /\ again.held
                    /\ again.opens = opens[i] + 1
                    /\ Settle(i, out, TRUE) = out]_vars

\* a call on a PatientDataAccess object that was closed has failed to
\* connect: the object holds no connection and has opened one so far
C26_Witness ==
    /\ Called("patient", "get_all")
    /\ last.kind = "DatabaseError"
    /\ ~conn["patient"]
    /\ opens["patient"] = 1

(***************************************************************************)
(* C27: _close_connection returns without raising and check_connection is  *)
(* false after it, for an object that holds a connection and for one that  *)
(* holds none, whether or not the engine's close raises; it changes        *)
(* neither the store nor the number of connections opened, and a second    *)
(* call leaves the object as the first did.                                *)
(***************************************************************************)
C27_CloseNeverFails ==
    [][/\ \A held, e1, e2 \in BOOLEAN :
             LET once == DataAccess_close_connection(held, e1)
                 twice == DataAccess_close_connection(once.held, e2)
             IN  /\ once.kind = "ok"
                 /\ ~DataAccess_check_connection(once.held)
                 /\ twice.kind = "ok"
                 /\ twice.held = once.held
                 /\ ~twice.warned
       /\ last'.op = "_close_connection"
          => /\ last'.kind = "ok"
             /\ ~DataAccess_check_connection(conn'[last'.acc])
             /\ txn'[last'.acc] = "none"
             /\ db' = db
             /\ opens' = opens
             /\ \A i \in Instances \ {last'.acc} : conn'[i] = conn[i]]_vars

\* _close_connection has returned on an object whose connection raised in
\* close(): the warning was printed and no connection is held
C27_Witness ==
    /\ Called("patient", "_close_connection")
    /\ last.kind = "ok"
    /\ last.value = 1
    /\ ~conn["patient"]
    /\ opens["patient"] = 1

(***************************************************************************)
(* C24: handle_database_operation returns a Result whatever the operation  *)
(* does and propagates no failure: Result.Ok(v) when the operation returns *)
(* v, and for every failure kind, Not-Permitted and the engine's own       *)
(* errors included, Result.Err holding the failure the operation raised.   *)
(***************************************************************************)
C24_HandleNeverPropagates ==
    /\ \A k \in Causes :
          isinstance(k, {"Exception"})
          => handle_database_operation([kind |-> k, value |-> NULL])
                = [kind |-> "ok", value |-> Result_Err(k)]
    /\ \A k \in Causes :
          isinstance(k, {"Exception"}) => Result_Err(k).error = k
    /\ \A v \in {NULL, 0, 1} :
          handle_database_operation([kind |-> "ok", value |-> v])
             = [kind |-> "ok", value |-> Result_Ok(v)]
    /\ last.op \in {"insert", "get_by_id", "update", "delete", "get_all"}
       => /\ last.kind = "ok"
          /\ Result_is_ok(last.value) <=> last.of.kind = "ok"
          /\ Result_is_ok(last.value) => last.value.value = last.of.value
          /\ Result_is_err(last.value) => last.value.error = last.of.kind

\* an insert on a dimension accessor, made inside
\* handle_database_operation, has given Err holding NotImplementedError
C24_Witness ==
    /\ Called("dim_treatment", "insert")
    /\ last.kind = "ok"
    /\ last.of.kind = "NotImplementedError"
    /\ Result_is_err(last.value)
    /\ last.value.error = "NotImplementedError"

(***************************************************************************)
(* C25: Result.Ok(v).unwrap() returns v, for None, False and 0 as for any  *)
(* other value.  For every object c, Result.Err(c) is an Err (is_err true, *)
(* is_ok false) and its unwrap raises and returns nothing: it raises c     *)
(* when c is an exception, and a TypeError when c is not.                  *)
(***************************************************************************)
C25_ResultUnwrap ==
    /\ \A v \in {NULL, 0, 1} :
          /\ Result_is_ok(Result_Ok(v)) /\ ~Result_is_err(Result_Ok(v))
          /\ Result_unwrap(Result_Ok(v)) = [kind |-> "ok", value |-> v]
    /\ \A b \in BOOLEAN :
          Result_unwrap(Result_Ok(b)) = [kind |-> "ok", value |-> b]
    /\ \A c \in Causes :
          LET r == Result_Err(c)
          IN  /\ Result_is_err(r) /\ ~Result_is_ok(r)
              /\ Result_unwrap(r).kind # "ok"
              /\ Result_unwrap(r).kind
                    = IF isinstance(c, {"Exception"}) THEN c ELSE "TypeError"
    /\ last.op = "unwrap"
       => /\ last.of.is_ok
             => last.kind = "ok" /\ last.value = last.of.value
          /\ ~last.of.is_ok
             => /\ last.kind # "ok"
                /\ last.kind = IF isinstance(last.cause, {"Exception"})
                               THEN last.cause ELSE "TypeError"

\* unwrap of the Result.Err made from a str has raised TypeError
C25_Witness ==
    /\ Called("caller", "unwrap")
    /\ last.cause = "str"
    /\ ~last.of.is_ok
    /\ last.kind = "TypeError"

====
